---- MODULE Spec2Model ----
(***************************************************************************)
(* Model of libavfilter/vf_reverse_mpdecimate.c: the reverse_mpdecimate    *)
(* video filter.  Two parts are modelled:                                  *)
(*   - the filter instance (DecimateContext) driven through init,          *)
(*     config_input, filter_frame and uninit (specification Spec);         *)
(*   - the pure plane comparison diff_planes applied to drawn inputs       *)
(*     (specification SpecDiff);                                           *)
(*   - the pure frame comparison is_frame_different applied to drawn       *)
(*     frames (specification SpecFrame);                                   *)
(*   - the filter instance late in a long stream, with dup_count close to  *)
(*     INT_MAX (specification SpecLong).                                   *)
(***************************************************************************)
EXTENDS Integers, Sequences, FiniteSets, TLC

VARIABLES
    pc,             \* lifecycle of the filter instance
    min_dup_count,  \* DecimateContext.min_dup_count (option "min")
    hi, lo, frac,   \* DecimateContext.hi, .lo, .frac (options)
    format,         \* inlink->format, the negotiated pixel format
    hsub, vsub,     \* DecimateContext.hsub, .vsub
    ref,            \* DecimateContext.ref: NULL or a handle into heap
    dup_count,      \* DecimateContext.dup_count
    heap,           \* every AVFrame ever allocated: handle -> [pts, pic, freed]
    out,            \* handles given to ff_filter_frame(outlink, .), in order
    hist,           \* one record per call of filter_frame, in order
    faults,         \* number of library failures injected so far
    plane,          \* SpecDiff: [w, h] of the plane under comparison
    sads,           \* SpecDiff: window <<x, y>> -> value returned by decimate->sad
    opts,           \* SpecDiff: the threshold settings the plane is compared under
    rets,           \* SpecDiff: diff_planes' result under opts[1], opts[2], ...
    visits,         \* SpecDiff: the windows each of these calls took the SAD of, in order
    pair,           \* SpecFrame: [cur, ref], the two frames under comparison
    verdict         \* SpecFrame: is_frame_different's result and the planes it scanned

vars == <<pc, min_dup_count, hi, lo, frac, format, hsub, vsub, ref, dup_count,
          heap, out, hist, faults, plane, sads, opts, rets, visits, pair, verdict>>

ctxvars == <<min_dup_count, hi, lo, frac>>
diffvars == <<plane, sads, opts, rets, visits, pair, verdict>>

(***************************************************************************)
(* Bounds of the model.                                                    *)
(***************************************************************************)
\* frames fed to one filter instance
MaxFrames == 8
\* library failures (av_frame_clone, ff_filter_frame) injected per behaviour
MaxFaults == 1
\* largest value of option "min" that is drawn
MaxMin == 3
\* luma size of the stream's frames
FrameWidth == 16
FrameHeight == 16

\* the value of a null pointer
NULL == 0
\* the largest int (dup_count and min_dup_count are C ints)
INT_MAX == 2147483647

Abs(n) == IF n < 0 THEN -n ELSE n

(***************************************************************************)
(* Options.  frac is a float in the code; it is modelled as an exact       *)
(* fraction <<num, den>>.  The values drawn are such that the float        *)
(* product (w/16)*(h/16)*frac of the model's plane sizes truncates to the  *)
(* same integer as the exact product.                                      *)
(***************************************************************************)
DefaultOptions == [hi |-> 64 * 12, lo |-> 64 * 5, frac |-> <<33, 100>>]

LaxOptions == [hi |-> 1000, lo |-> 400, frac |-> <<1, 1>>]


(***************************************************************************)
(* Pixel formats: chroma shifts and number of planes (a subset of          *)
(* pix_fmts).                                                              *)
(***************************************************************************)
PixFmts ==
    { [name |-> "yuv444p", log2_chroma_w |-> 0, log2_chroma_h |-> 0, nb_planes |-> 3],
      [name |-> "yuv420p", log2_chroma_w |-> 1, log2_chroma_h |-> 1, nb_planes |-> 3] }

PixFmt(name) == CHOOSE f \in PixFmts : f.name = name

\* the option settings and pixel formats a stream is drawn with
StreamSetups ==
    { [options |-> DefaultOptions, format |-> PixFmt("yuv444p")],
      [options |-> LaxOptions,     format |-> PixFmt("yuv444p")],
      [options |-> LaxOptions,     format |-> PixFmt("yuv420p")] }

\* -((-a) >> b): a / 2^b rounded up
AV_CEIL_RSHIFT(a, b) == -((-a) \div (2 ^ b))

(***************************************************************************)
(* Pictures.  A picture gives every plane one pixel value (a flat plane),  *)
(* so the 8x8 SAD of two planes is 64 * |difference| at every window.      *)
(***************************************************************************)
Pictures == {"black", "dusk"}

\* the pixel value of planes 0, 1, 2 of a picture
Levels(pic) == IF pic = "black" THEN <<0, 0, 0>> ELSE <<6, 13, 13>>

\* the AVFrame fields of heap cell c that is_frame_different reads
Frame(c, fmt) ==
    [ width    |-> FrameWidth,
      height   |-> FrameHeight,
      \* data[p] stands for the plane's buffer: non-NULL, and its value the
      \* plane's pixel value (+1, so that a present plane is never NULL)
      data     |-> [p \in 0..3 |-> IF p < fmt.nb_planes THEN Levels(c.pic)[p + 1] + 1 ELSE NULL],
      linesize |-> [p \in 0..3 |->
                      IF p >= fmt.nb_planes THEN 0
                      ELSE IF p = 0 THEN FrameWidth
                      ELSE AV_CEIL_RSHIFT(FrameWidth, fmt.log2_chroma_w)] ]

(***************************************************************************)
(* diff_planes                                                             *)
(***************************************************************************)
\* the windows the two loops visit: x = 8, 12, .. < w-7 and y = 0, 4, .. < h-7
Windows(w, h) ==
    { <<8 + 4 * i, 4 * j>> : i \in 0..((w - 16) \div 4), j \in 0..((h - 8) \div 4) }

\* int t = (w/16)*(h/16)*decimate->frac;
Budget_decreasing(w, h, fr) == ((w \div 16) * (h \div 16) * (fr[2] - fr[1])) \div fr[2]

Budget(w, h, fr) == ((w \div 16) * (h \div 16) * fr[1]) \div fr[2]

\* line 84: if (d > decimate->hi)
exceeds_or_equals(d, thr) == d >= thr

exceeds_hi(d, thr) == d > thr

\* line 88: if (d > decimate->lo)
exceeds_lo(d, thr) == d > thr

\* line 80: for (y = 0; y < h-7; y += 4)
in_rows(y, h) == y < h - 7

\* line 81: for (x = 8; x < w-7; x += 4)
in_columns_short(x, w) == x < w - 8

in_columns(x, w) == x < w - 7

\* the two nested loops from window <<x, y>> on, with c windows counted so far
RECURSIVE Scan(_, _, _, _, _, _, _, _, _)
Scan(sad, w, h, h_thr, l_thr, t, x, y, c) ==
    IF ~in_rows(y, h) THEN 0
    ELSE IF ~in_columns(x, w) THEN Scan(sad, w, h, h_thr, l_thr, t, 8, y + 4, c)
    ELSE LET d == sad[<<x, y>>]
         IN  IF exceeds_hi(d, h_thr) THEN 1
             ELSE IF exceeds_lo(d, l_thr)
                  THEN IF c + 1 > t THEN 1
                       ELSE Scan(sad, w, h, h_thr, l_thr, t, x + 4, y, c + 1)
                  ELSE Scan(sad, w, h, h_thr, l_thr, t, x + 4, y, c)

diff_planes(sad, w, h, h_thr, l_thr, fr) ==
    Scan(sad, w, h, h_thr, l_thr, Budget(w, h, fr), 8, 0, 0)

\* the same loops, giving the windows at which decimate->sad is called
\* (lines 82-83), in the order of the calls
RECURSIVE ScanVisits(_, _, _, _, _, _, _, _, _)
ScanVisits(sad, w, h, h_thr, l_thr, t, x, y, c) ==
    IF ~in_rows(y, h) THEN <<>>
    ELSE IF ~in_columns(x, w) THEN ScanVisits(sad, w, h, h_thr, l_thr, t, 8, y + 4, c)
    ELSE LET d == sad[<<x, y>>]
         IN  IF exceeds_hi(d, h_thr) THEN << <<x, y>> >>
             ELSE IF exceeds_lo(d, l_thr)
                  THEN IF c + 1 > t THEN << <<x, y>> >>
                       ELSE << <<x, y>> >>
                              \o ScanVisits(sad, w, h, h_thr, l_thr, t, x + 4, y, c + 1)
                  ELSE << <<x, y>> >>
                         \o ScanVisits(sad, w, h, h_thr, l_thr, t, x + 4, y, c)

diff_planes_visits(sad, w, h, h_thr, l_thr, fr) ==
    ScanVisits(sad, w, h, h_thr, l_thr, Budget(w, h, fr), 8, 0, 0)

(***************************************************************************)
(* is_frame_different                                                      *)
(***************************************************************************)
\* decimate->sad on two flat planes: 64 pixels, each differing by the same amount
FlatSad(curf, reff, p, w, h) ==
    [win \in Windows(w, h) |-> 64 * Abs(curf.data[p] - reff.data[p])]

\* lines 117-118: the chroma shift applies to planes 1 and 2
plane_sub_all(p, sub) == IF p >= 1 THEN sub ELSE 0

plane_sub(p, sub) == IF p = 1 \/ p = 2 THEN sub ELSE 0

RECURSIVE PlaneLoop(_, _, _, _, _, _, _, _)
PlaneLoop(curf, reff, p, hs, vs, h_thr, l_thr, fr) ==
    IF p > 3 \/ reff.data[p] = NULL \/ reff.linesize[p] = 0 THEN 0
    ELSE LET v == plane_sub(p, vs)
             s == plane_sub(p, hs)
             w == AV_CEIL_RSHIFT(reff.width, s)
             h == AV_CEIL_RSHIFT(reff.height, v)
         IN  IF diff_planes(FlatSad(curf, reff, p, w, h), w, h, h_thr, l_thr, fr) = 1
             THEN 1
             ELSE PlaneLoop(curf, reff, p + 1, hs, vs, h_thr, l_thr, fr)

is_frame_different(curf, reff, hs, vs, h_thr, l_thr, fr) ==
    PlaneLoop(curf, reff, 0, hs, vs, h_thr, l_thr, fr)

\* the same loop, giving the calls of diff_planes it makes (lines 120-124):
\* the plane and the width and height passed, in the order of the calls
RECURSIVE PlaneLoopScans(_, _, _, _, _, _, _, _)
PlaneLoopScans(curf, reff, p, hs, vs, h_thr, l_thr, fr) ==
    IF p > 3 \/ reff.data[p] = NULL \/ reff.linesize[p] = 0 THEN <<>>
    ELSE LET v == plane_sub(p, vs)
             s == plane_sub(p, hs)
             w == AV_CEIL_RSHIFT(reff.width, s)
             h == AV_CEIL_RSHIFT(reff.height, v)
         IN  IF diff_planes(FlatSad(curf, reff, p, w, h), w, h, h_thr, l_thr, fr) = 1
             THEN << [plane |-> p, w |-> w, h |-> h] >>
             ELSE << [plane |-> p, w |-> w, h |-> h] >>
                    \o PlaneLoopScans(curf, reff, p + 1, hs, vs, h_thr, l_thr, fr)

is_frame_different_scans(curf, reff, hs, vs, h_thr, l_thr, fr) ==
    PlaneLoopScans(curf, reff, 0, hs, vs, h_thr, l_thr, fr)

(***************************************************************************)
(* Frame ownership.  av_frame_clone makes a new AVFrame (a new handle)     *)
(* with the same picture and pts; av_frame_free(&p) frees *p and sets p to *)
(* NULL, and does nothing when p is NULL.                                  *)
(***************************************************************************)
Cell(pts, pic) == [pts |-> pts, pic |-> pic, freed |-> 0]

av_frame_clone(hp, f) == Append(hp, Cell(hp[f].pts, hp[f].pic))

av_frame_free(hp, f) == IF f = NULL THEN hp ELSE [hp EXCEPT ![f].freed = @ + 1]

(***************************************************************************)
(* filter_frame, piece by piece                                            *)
(***************************************************************************)
\* how line 183 judges cur: "noref" when decimate->ref is NULL (the call of
\* is_frame_different is then skipped), else what is_frame_different says
Classify(hp, cur, refv, fmt, hs, vs, h_thr, l_thr, fr) ==
    IF refv = NULL THEN "noref"
    ELSE IF is_frame_different(Frame(hp[cur], fmt), Frame(hp[refv], fmt),
                               hs, vs, h_thr, l_thr, fr) = 1
         THEN "diff"
         ELSE "same"

\* decimate->dup_count++ on a 32-bit int
Increment(n) == IF n = INT_MAX THEN -INT_MAX - 1 ELSE n + 1

\* lines 183-187
update_no_first(cls, dup) ==
    IF cls = "diff" THEN 0 ELSE IF cls = "noref" THEN dup ELSE Increment(dup)

update_no_reset(cls, dup) == Increment(dup)

update_dup_count(cls, dup) == IF cls = "diff" THEN 0 ELSE Increment(dup)

\* the test of lines 191 and 195
keep_at_least(dup, min) == dup >= min

keep(dup, min) == dup = min

\* line 195: the frame that is cloned for the output is cur
emit_source_ref(cur, refv) == IF refv = NULL THEN cur ELSE refv

emit_source(cur, refv) == cur

\* the value ff_filter_frame fails with: a negative AVERROR code, here
\* AVERROR(ENOMEM)
PushErrors == {-12}

\* line 196: return ret
return_generic(ret) == -1

return_of_push(ret) == ret

\* line 198: av_frame_free(&decimate->ref)
release_nothing(hp, refv) == hp

release_ref(hp, refv) == av_frame_free(hp, refv)

\* lines 144-148, the heap after uninit
uninit_leak(hp, refv) == hp

uninit_heap(hp, refv) == av_frame_free(hp, refv)

\* the record of one call of filter_frame
Call(cur, hp, cls, dup, emitted, push_ret, ret, returned, ref_after, clone_failed) ==
    [ pts |-> hp[cur].pts, cur |-> cur, cls |-> cls,
      dup_before |-> dup_count, dup |-> dup,
      ref_before |-> ref, ref_after |-> ref_after,
      emitted |-> emitted, push_ret |-> push_ret,
      ret |-> ret, returned |-> returned,
      clone_failed |-> clone_failed ]

(***************************************************************************)
(* The filter instance                                                     *)
(***************************************************************************)
DiffIdle ==
    /\ plane = [w |-> 0, h |-> 0]
    /\ sads = <<>>
    /\ opts = <<>>
    /\ rets = <<>>
    /\ visits = <<>>

FrameIdle ==
    /\ pair = <<>>
    /\ verdict = <<>>

Init ==
    /\ pc = "created"
    /\ min_dup_count \in 0..MaxMin
    /\ \E s \in StreamSetups :
         /\ hi = s.options.hi
         /\ lo = s.options.lo
         /\ frac = s.options.frac
         /\ format = s.format
    /\ hsub = 0
    /\ vsub = 0
    /\ ref = NULL
    /\ dup_count = 0
    /\ heap = <<>>
    /\ out = <<>>
    /\ hist = <<>>
    /\ faults = 0
    /\ DiffIdle
    /\ FrameIdle

\* init: the SAD function is found, or init fails with AVERROR(EINVAL)
init ==
    /\ pc = "created"
    /\ \E sad_found \in BOOLEAN :
         /\ ~sad_found => faults < MaxFaults
         /\ pc' = IF sad_found THEN "inited" ELSE "init_failed"
         /\ faults' = IF sad_found THEN faults ELSE faults + 1
    /\ UNCHANGED <<ctxvars, format, hsub, vsub, ref, dup_count, heap, out, hist, diffvars>>

config_input ==
    /\ pc = "inited"
    /\ hsub' = format.log2_chroma_w
    /\ vsub' = format.log2_chroma_h
    /\ pc' = "configured"
    /\ UNCHANGED <<ctxvars, format, ref, dup_count, heap, out, hist, faults, diffvars>>

\* the library call that fails during one call of filter_frame; at most one
\* can: a failed clone for the output ends the process inside ff_filter_frame,
\* and a failed ff_filter_frame returns before the reference is cloned
FaultsOf(emit) ==
    IF faults >= MaxFaults THEN {"none"}
    ELSE IF emit THEN {"none", "emit_clone", "push", "ref_clone"}
    ELSE {"none", "ref_clone"}

filter_frame ==
    /\ pc = "configured"
    /\ Len(hist) < MaxFrames
    /\ \E pic \in Pictures :
       \E heap0 \in {Append(heap, Cell(Len(hist) + 1, pic))} :
       \E cur \in {Len(heap0)} :
       \E cls \in {Classify(heap0, cur, ref, format, hsub, vsub, hi, lo, frac)} :
       \E dup \in {update_dup_count(cls, dup_count)} :
       \E emit \in {keep(dup, min_dup_count)} :
       \E fault \in FaultsOf(emit) :
         /\ faults' = IF fault = "none" THEN faults ELSE faults + 1
         /\ dup_count' = dup
         /\ IF emit /\ fault = "emit_clone"
            THEN \* line 195: av_frame_clone returns NULL and
                 \* ff_filter_frame(outlink, NULL) dereferences it: the process
                 \* ends inside the call
                 /\ pc' = "crashed"
                 /\ heap' = heap0
                 /\ out' = out
                 /\ ref' = ref
                 /\ hist' = Append(hist, Call(cur, heap0, cls, dup, NULL, 0, 0, FALSE, ref, TRUE))
            ELSE
            \E heap1 \in {IF emit THEN av_frame_clone(heap0, emit_source(cur, ref))
                                    ELSE heap0} :
            \E sent \in {IF emit THEN Len(heap1) ELSE NULL} :
              IF emit /\ fault = "push"
              THEN \* lines 195-196: ff_filter_frame fails, return ret
                   \E err \in PushErrors :
                     /\ pc' = pc
                     /\ heap' = heap1
                     /\ out' = Append(out, sent)
                     /\ ref' = ref
                     /\ hist' = Append(hist, Call(cur, heap0, cls, dup, sent, err,
                                                  return_of_push(err), TRUE, ref, FALSE))
              ELSE \* lines 198-202
                   \E heap2 \in {release_ref(heap1, ref)} :
                   \E heap3 \in {IF fault = "ref_clone" THEN heap2 ELSE av_frame_clone(heap2, cur)} :
                   \E nref \in {IF fault = "ref_clone" THEN NULL ELSE Len(heap3)} :
                     /\ pc' = pc
                     /\ heap' = av_frame_free(heap3, cur)
                     /\ out' = IF emit THEN Append(out, sent) ELSE out
                     /\ ref' = nref
                     /\ hist' = Append(hist, Call(cur, heap0, cls, dup, sent, 0, 0, TRUE,
                                                  nref, fault = "ref_clone"))
    /\ UNCHANGED <<ctxvars, format, hsub, vsub, diffvars>>

uninit ==
    /\ pc \in {"created", "init_failed", "inited", "configured"}
    /\ heap' = uninit_heap(heap, ref)
    /\ ref' = NULL
    /\ pc' = "closed"
    /\ UNCHANGED <<ctxvars, format, hsub, vsub, dup_count, out, hist, faults, diffvars>>

Next == init \/ config_input \/ filter_frame \/ uninit

Spec == Init /\ [][Next]_vars

(***************************************************************************)
(* diff_planes on drawn inputs: one plane pair, given by the value the SAD *)
(* function returns at each window, compared under two threshold settings. *)
(***************************************************************************)
PlaneSizes == {<<8, 8>>, <<16, 8>>, <<16, 16>>, <<16, 20>>, <<19, 11>>, <<20, 12>>}

SadValues == {0, 2, 5}

DiffOptions == [hi : {-1, 0, 4}, lo : {-1, 0, 3}, frac : {<<0, 1>>, <<1, 2>>, <<1, 1>>}]

InitDiff ==
    /\ pc = "created"
    /\ min_dup_count = 0
    /\ hi = DefaultOptions.hi
    /\ lo = DefaultOptions.lo
    /\ frac = DefaultOptions.frac
    /\ format = PixFmt("yuv444p")
    /\ hsub = 0
    /\ vsub = 0
    /\ ref = NULL
    /\ dup_count = 0
    /\ heap = <<>>
    /\ out = <<>>
    /\ hist = <<>>
    /\ faults = 0
    /\ \E sz \in PlaneSizes : plane = [w |-> sz[1], h |-> sz[2]]
    /\ sads \in [Windows(plane.w, plane.h) -> SadValues]
    /\ opts \in DiffOptions \X DiffOptions
    /\ rets = <<>>
    /\ visits = <<>>
    /\ FrameIdle

\* one call of diff_planes on the plane pair, under the next threshold setting
diff_planes_call ==
    /\ Len(rets) < Len(opts)
    /\ \E o \in {opts[Len(rets) + 1]} :
         /\ rets' = Append(rets, diff_planes(sads, plane.w, plane.h, o.hi, o.lo, o.frac))
         /\ visits' = Append(visits, diff_planes_visits(sads, plane.w, plane.h,
                                                        o.hi, o.lo, o.frac))
    /\ UNCHANGED <<pc, ctxvars, format, hsub, vsub, ref, dup_count, heap, out, hist,
                   faults, plane, sads, opts, pair, verdict>>

NextDiff == diff_planes_call

SpecDiff == InitDiff /\ [][NextDiff]_vars

(***************************************************************************)
(* is_frame_different on drawn inputs: a reference frame whose planes are  *)
(* each present, without buffer, or with a zero stride, and a current      *)
(* frame with all four planes, compared under the drawn chroma shifts and  *)
(* option settings.                                                        *)
(***************************************************************************)
FrameSizes == {<<16, 16>>, <<31, 15>>}

ChromaShifts == {0, 1}

PlaneStates == {"present", "nobuffer", "nostride"}

PlaneLevels == {0, 6, 13}

\* a current frame of luma size sz with the pixel value lv[p] in plane p
CurFrame(sz, lv) ==
    [ width |-> sz[1], height |-> sz[2],
      data |-> [p \in 0..3 |-> lv[p] + 1],
      linesize |-> [p \in 0..3 |-> sz[1]] ]

\* a reference frame of luma size sz with pixel value 0 in the planes it has
RefFrame(sz, st) ==
    [ width |-> sz[1], height |-> sz[2],
      data |-> [p \in 0..3 |-> IF st[p] = "nobuffer" THEN NULL ELSE 1],
      linesize |-> [p \in 0..3 |-> IF st[p] = "nostride" THEN 0 ELSE sz[1]] ]

InitFrame ==
    /\ pc = "configured"
    /\ min_dup_count = 0
    /\ \E o \in {DefaultOptions, LaxOptions} :
         /\ hi = o.hi
         /\ lo = o.lo
         /\ frac = o.frac
    /\ format = PixFmt("yuv444p")
    /\ hsub \in ChromaShifts
    /\ vsub \in ChromaShifts
    /\ ref = NULL
    /\ dup_count = 0
    /\ heap = <<>>
    /\ out = <<>>
    /\ hist = <<>>
    /\ faults = 0
    /\ DiffIdle
    /\ \E sz \in FrameSizes, lv \in [0..3 -> PlaneLevels], st \in [0..3 -> PlaneStates] :
         pair = [cur |-> CurFrame(sz, lv), ref |-> RefFrame(sz, st)]
    /\ verdict = <<>>

\* one call of is_frame_different on the two frames
is_frame_different_call ==
    /\ verdict = <<>>
    /\ verdict' = << [ ret |-> is_frame_different(pair.cur, pair.ref, hsub, vsub,
                                                  hi, lo, frac),
                       scans |-> is_frame_different_scans(pair.cur, pair.ref, hsub, vsub,
                                                          hi, lo, frac) ] >>
    /\ UNCHANGED <<pc, ctxvars, format, hsub, vsub, ref, dup_count, heap, out, hist,
                   faults, plane, sads, opts, rets, visits, pair>>

NextFrame == is_frame_different_call

SpecFrame == InitFrame /\ [][NextFrame]_vars

(***************************************************************************)
(* The filter instance late in a long stream.  After INT_MAX - 2 or        *)
(* INT_MAX - 1 frames since the stream began or a frame was last judged    *)
(* different, the instance holds a reference and dup_count is that number; *)
(* min_dup_count is any value of the option's range 0..INT_MAX.  hist,     *)
(* out and heap record the stream from this point on (heap[1] is the       *)
(* reference held).                                                        *)
(***************************************************************************)
InitLong ==
    /\ pc = "configured"
    /\ min_dup_count \in {MaxMin, INT_MAX}
    /\ \E s \in StreamSetups :
         /\ hi = s.options.hi
         /\ lo = s.options.lo
         /\ frac = s.options.frac
         /\ format = s.format
    /\ hsub = format.log2_chroma_w
    /\ vsub = format.log2_chroma_h
    /\ \E pic \in Pictures : heap = <<Cell(0, pic)>>
    /\ ref = 1
    /\ dup_count \in {INT_MAX - 2, INT_MAX - 1}
    /\ out = <<>>
    /\ hist = <<>>
    /\ faults = 0
    /\ DiffIdle
    /\ FrameIdle

\* line 186 with dup_count = INT_MAX: the increment overflows, which is
\* undefined.  A build whose int wraps goes on as filter_frame does (Increment);
\* a build that traps on signed overflow ends the process here.
filter_frame_trap ==
    /\ pc = "configured"
    /\ Len(hist) < MaxFrames
    /\ dup_count = INT_MAX
    /\ \E pic \in Pictures :
       \E heap0 \in {Append(heap, Cell(Len(hist) + 1, pic))} :
       \E cur \in {Len(heap0)} :
       \E cls \in {Classify(heap0, cur, ref, format, hsub, vsub, hi, lo, frac)} :
         /\ cls # "diff"
         /\ pc' = "crashed"
         /\ heap' = heap0
         /\ hist' = Append(hist, Call(cur, heap0, cls, dup_count, NULL, 0, 0, FALSE,
                                      ref, FALSE))
    /\ UNCHANGED <<ctxvars, format, hsub, vsub, ref, dup_count, out, faults, diffvars>>

NextLong == filter_frame \/ filter_frame_trap \/ uninit

SpecLong == InitLong /\ [][NextLong]_vars

(***************************************************************************)
(* Vocabulary of the properties                                            *)
(***************************************************************************)
Calls == 1..Len(hist)

\* the calls that returned (a call that ended the process did not)
Returned == {i \in Calls : hist[i].returned}

\* the calls that gave a frame to ff_filter_frame
Emitting == {i \in Calls : hist[i].emitted # NULL}

\* pts of the frames given to ff_filter_frame, in order
OutPts == [k \in 1..Len(out) |-> heap[out[k]].pts]

\* a run starts with the stream and with every frame judged different
RunStart(i) == i = 1 \/ hist[i].cls = "diff"

\* the call that started the run call i belongs to
RunOf(i) == CHOOSE s \in 1..i : RunStart(s) /\ \A k \in (s + 1)..i : ~RunStart(k)

\* the calls of the current stretch of frames none of which was judged
\* different: from the stream's start, or from just after the last frame
\* judged different
Stretch == {i \in Calls : \A k \in i..Len(hist) : hist[k].cls # "diff"}

\* position of call i in the stretch, counted from 1
PosInStretch(i) == i - (Len(hist) - Cardinality(Stretch))

\* a step of filter_frame that returns
FilterFrameReturns == Len(hist') = Len(hist) + 1 /\ hist'[Len(hist')].returned

(***************************************************************************)
(* C1: every call of filter_frame that returns gives a clone of its frame  *)
(* to the output if and only if dup_count, as updated by this call,        *)
(* equals min_dup_count (not: is at least min_dup_count); so a call emits  *)
(* zero frames or one.                                                     *)
(***************************************************************************)
C1_EmitIffEqual ==
    [][FilterFrameReturns =>
         /\ (dup_count' = min_dup_count) => /\ Len(out') = Len(out) + 1
                                            /\ SubSeq(out', 1, Len(out)) = out
                                            /\ out'[Len(out')] > Len(heap)
                                            /\ heap'[out'[Len(out')]].pts = Len(hist')
         /\ (dup_count' # min_dup_count) => out' = out]_vars

C1_Witness ==
    /\ \E i \in Returned : hist[i].emitted # NULL /\ hist[i].dup = min_dup_count
    /\ \E i \in Returned : hist[i].emitted = NULL /\ hist[i].dup > min_dup_count
    /\ \E i \in Returned : hist[i].emitted = NULL /\ hist[i].dup < min_dup_count

(***************************************************************************)
(* C2: the scenario min_dup_count = 3 and eight frames judged              *)
(* [no reference, same, same, same, different, same, same, same].          *)
(***************************************************************************)
Scenario ==
    /\ min_dup_count = 3
    /\ Len(hist) = 8
    /\ Returned = Calls
    /\ [i \in Calls |-> hist[i].cls]
         = <<"noref", "same", "same", "same", "diff", "same", "same", "same">>

\* C2 as claimed: the output is [F4, F7]
C2_Claimed == Scenario => OutPts = <<4, 7>>

\* C2 as the code has it: once the eight calls have returned, the frames given
\* to the output are [F3, F8], and dup_count after each frame was
\* 1, 2, 3, 4, 0, 1, 2, 3
C2_Scenario ==
    Scenario => /\ OutPts = <<3, 8>>
                /\ [i \in Calls |-> hist[i].dup] = <<1, 2, 3, 4, 0, 1, 2, 3>>
                /\ dup_count = 3

C2_Witness == Scenario /\ Len(out) = 2

(***************************************************************************)
(* C3: a stretch of N frames none of which is judged different (from the   *)
(* start of the stream, or from just after a frame judged different).      *)
(***************************************************************************)
\* C3 as claimed, for every min_dup_count >= 0: one emission, by the frame
\* at position min_dup_count, when N >= min_dup_count; none otherwise
C3_Claimed ==
    (Returned = Calls /\ Stretch # {}) =>
        IF Cardinality(Stretch) >= min_dup_count
        THEN /\ Cardinality(Stretch \cap Emitting) = 1
             /\ \A i \in Stretch \cap Emitting : PosInStretch(i) = min_dup_count
        ELSE Stretch \cap Emitting = {}

\* C3 for min_dup_count >= 1; with min_dup_count = 0 no frame of the stretch
\* is emitted
C3_RunLength ==
    Returned = Calls =>
        IF min_dup_count >= 1 /\ Cardinality(Stretch) >= min_dup_count
        THEN /\ Cardinality(Stretch \cap Emitting) = 1
             /\ \A i \in Stretch \cap Emitting : PosInStretch(i) = min_dup_count
        ELSE Stretch \cap Emitting = {}

C3_Witness ==
    /\ Returned = Calls
    /\ min_dup_count >= 2
    /\ Cardinality(Stretch) > min_dup_count
    /\ Cardinality(Stretch) < Len(hist)
    /\ \E i \in Stretch : hist[i].emitted # NULL /\ out[Len(out)] = hist[i].emitted

(***************************************************************************)
(* C4: at most one emission per run.  Of any two emitting calls the later  *)
(* one is, or comes after, a frame judged different that follows the       *)
(* earlier one; and a run has an emitting call if and only if dup_count    *)
(* equalled min_dup_count after one of its calls.                          *)
(***************************************************************************)
C4_OncePerRun ==
    /\ \A i, j \in Emitting : i < j => \E k \in (i + 1)..j : hist[k].cls = "diff"
    /\ \E run \in {[i \in Calls |-> RunOf(i)]} :
         \A s \in Returned :
           RunStart(s) =>
             ((\E i \in Emitting : run[i] = s)
                <=> (\E i \in Returned : run[i] = s /\ hist[i].dup = min_dup_count))
    /\ Len(out) = Cardinality(Emitting)

C4_Witness ==
    /\ Cardinality(Emitting) >= 2
    /\ \E i \in Returned : RunOf(i) # i /\ hist[i].emitted # NULL
                           /\ \E j \in Returned : j > i /\ RunOf(j) = RunOf(i)
    /\ \E s \in Returned : RunStart(s) /\ s < Len(hist) /\ RunOf(Len(hist)) = s
                           /\ \A i \in Emitting : RunOf(i) # s

(***************************************************************************)
(* C5: min_dup_count = 0.                                                  *)
(***************************************************************************)
\* C5 as claimed: every frame is emitted
C5_Claimed == min_dup_count = 0 => \A i \in Returned : hist[i].emitted # NULL

\* C5 as the code has it: with min_dup_count = 0 a frame is emitted if and
\* only if it is judged different from the reference; the first frame of the
\* stream and every frame judged the same are not
C5_ZeroMin ==
    min_dup_count = 0 =>
        /\ \A i \in Returned : hist[i].emitted # NULL <=> hist[i].cls = "diff"
        /\ Len(out) = Cardinality({i \in Returned : hist[i].cls = "diff"})

C5_Witness ==
    /\ min_dup_count = 0
    /\ Len(hist) >= 3
    /\ Returned = Calls
    /\ \E i \in Calls : hist[i].cls = "diff" /\ hist[i].emitted # NULL
    /\ \E i \in Calls : hist[i].cls = "same" /\ hist[i].emitted = NULL

(***************************************************************************)
(* C6: after every call of filter_frame that returns, whatever was decided *)
(* about the frame, the previous reference has been released and the       *)
(* reference is a clone of the call's frame; so frame k+1 is compared with *)
(* frame k.                                                                *)
(***************************************************************************)
C6_Claimed ==
    \A i \in Returned :
        /\ hist[i].ref_after # NULL
        /\ hist[i].ref_after # hist[i].cur
        /\ heap[hist[i].ref_after].pts = hist[i].pts
        /\ hist[i].ref_before # NULL => heap[hist[i].ref_before].freed = 1
        /\ i > 1 => /\ hist[i].ref_before # NULL
                    /\ heap[hist[i].ref_before].pts = hist[i - 1].pts

(***************************************************************************)
(* C7: a call of filter_frame in which a frame clone fails returns an      *)
(* error, and leaves reference and dup_count as they were before the call. *)
(***************************************************************************)
C7_Claimed ==
    \A i \in Calls :
        hist[i].clone_failed =>
            /\ hist[i].returned
            /\ hist[i].ret < 0
            /\ hist[i].ref_after = hist[i].ref_before
            /\ hist[i].dup = hist[i].dup_before

(***************************************************************************)
(* C8: the reference slot has a single owner.  In every state the frames   *)
(* acquired as reference and not yet released are at most one, the one in  *)
(* decimate->ref; none is released twice; after uninit none is left and    *)
(* ref is NULL; uninit gives no frame to the output.                       *)
(***************************************************************************)
Acquired == {hist[i].ref_after : i \in Calls} \ {NULL}

LiveRefs == {f \in Acquired : heap[f].freed = 0}

C8_SingleOwner ==
    /\ Cardinality(LiveRefs) <= 1
    /\ LiveRefs = {ref} \ {NULL}
    /\ \A f \in Acquired : heap[f].freed <= 1
    /\ pc = "closed" => /\ ref = NULL
                        /\ \A f \in Acquired : heap[f].freed = 1
                        /\ Len(out) = Cardinality(Emitting)

C8_Witness ==
    /\ pc = "closed"
    /\ Cardinality(Acquired) >= 3
    /\ faults > 0
    /\ \E i \in Calls : hist[i].ret < 0

(***************************************************************************)
(* C9: two identical planes (the SAD is 0 at every window) are judged not  *)
(* different under every threshold setting the options accept.             *)
(***************************************************************************)
Identical == \A win \in DOMAIN sads : sads[win] = 0

\* C9 as claimed: under every setting, negative thresholds included
C9_Claimed == Identical => \A k \in 1..Len(rets) : rets[k] = 0

\* C9 for thresholds hi >= 0 and lo >= 0 (any frac, any plane size)
C9_IdenticalPlanes ==
    Identical => \A k \in 1..Len(rets) : (opts[k].hi >= 0 /\ opts[k].lo >= 0) => rets[k] = 0

C9_Witness ==
    /\ Identical
    /\ Cardinality(DOMAIN sads) >= 3
    /\ Len(rets) = 2
    /\ opts[1].hi = 0 /\ opts[1].lo = 0 /\ opts[1].frac = <<0, 1>>
    /\ opts[2].hi = 4 /\ opts[2].lo = 3
    /\ rets = <<0, 0>>

(***************************************************************************)
(* C10: diff_planes is monotone in its thresholds: a plane pair judged not *)
(* different under (hi, lo, frac) is judged not different under every      *)
(* (hi', lo', frac') with hi' >= hi, lo' >= lo and frac' >= frac.          *)
(***************************************************************************)
FracLeq(a, b) == a[1] * b[2] <= b[1] * a[2]

Raised(a, b) == b.hi >= a.hi /\ b.lo >= a.lo /\ FracLeq(a.frac, b.frac)

C10_Monotone ==
    \A i, j \in 1..Len(rets) : (Raised(opts[i], opts[j]) /\ rets[i] = 0) => rets[j] = 0

C10_Witness ==
    /\ Len(rets) = 2
    /\ Raised(opts[1], opts[2])
    /\ opts[1] # opts[2]
    /\ rets = <<0, 0>>
    /\ \E win \in DOMAIN sads : sads[win] > opts[1].lo

(***************************************************************************)
(* C11: the frames given to the output are a subsequence of the input in   *)
(* input order; each of them is a clone made, by the call that emits it,   *)
(* of the frame that call is processing (not of the stored reference, not  *)
(* of an earlier frame), and carries that frame's pts.                     *)
(***************************************************************************)
C11_OrderedClones ==
    /\ \A i \in Calls : hist[i].pts = i
    /\ \A k \in 1..Len(out) :
         \E i \in Calls :
           /\ hist[i].emitted = out[k]
           /\ out[k] # hist[i].cur
           /\ out[k] # hist[i].ref_before
           /\ out[k] > hist[i].cur
           /\ \A j \in Calls : j > i => out[k] < hist[j].cur
           /\ heap[out[k]].pts = hist[i].pts
           /\ heap[out[k]].pic = heap[hist[i].cur].pic
    /\ \A k, l \in 1..Len(out) : k < l => OutPts[k] < OutPts[l]

C11_Witness ==
    /\ Len(out) = 2
    /\ Returned = Calls
    /\ OutPts[1] > 1
    /\ OutPts[2] > OutPts[1] + 1
    /\ heap[out[1]].pic # heap[out[2]].pic
    /\ \A k \in 1..2 : hist[OutPts[k]].ref_before # NULL

(***************************************************************************)
(* C12: with a reference held and is_frame_different saying 1, a call      *)
(* leaves dup_count at 0; in every other case it leaves dup_count at its   *)
(* previous value plus 1.  With no reference held the frame is not         *)
(* compared.  Before the first call there is no reference and dup_count    *)
(* is 0.                                                                   *)
(***************************************************************************)
JudgedDifferent(i) ==
    /\ hist[i].ref_before # NULL
    /\ \E curf \in {Frame(heap[hist[i].cur], format)} :
       \E reff \in {Frame(heap[hist[i].ref_before], format)} :
         is_frame_different(curf, reff, hsub, vsub, hi, lo, frac) = 1

C12_CounterTransition ==
    /\ hist = <<>> => (ref = NULL /\ dup_count = 0)
    /\ hist # <<>> => dup_count = hist[Len(hist)].dup
    /\ \A i \in Calls :
         /\ hist[i].dup_before = (IF i = 1 THEN 0 ELSE hist[i - 1].dup)
         /\ hist[i].ref_before = (IF i = 1 THEN NULL ELSE hist[i - 1].ref_after)
         /\ hist[i].ref_before = NULL <=> hist[i].cls = "noref"
         /\ hist[i].cls = "noref" => hist[i].dup = hist[i].dup_before + 1
         /\ (i = Len(hist) /\ pc # "closed") =>
              hist[i].dup = (IF JudgedDifferent(i) THEN 0 ELSE hist[i].dup_before + 1)

C12_Witness ==
    /\ Len(hist) >= 5
    /\ \E i \in Calls : JudgedDifferent(i) /\ hist[i].dup_before >= 2 /\ hist[i].dup = 0
    /\ \E i \in Calls : i > 1 /\ hist[i].ref_before = NULL /\ hist[i].dup >= 2
    /\ \E i \in Calls : hist[i].cls = "same" /\ hist[i].dup_before = 0 /\ hist[i].dup = 1

(***************************************************************************)
(* C16: dup_count, a 32-bit signed int, is >= 0 in every reachable state,  *)
(* and within a run it never decreases: every frame not judged different   *)
(* raises it by exactly 1, and a frame judged different sets it to 0;      *)
(* this for an input of every length.                                      *)
(***************************************************************************)
C16_Claimed ==
    /\ dup_count >= 0
    /\ \A i \in Returned :
         /\ hist[i].dup >= 0
         /\ hist[i].cls = "diff" => hist[i].dup = 0
         /\ hist[i].cls # "diff" =>
              /\ hist[i].dup > hist[i].dup_before
              /\ hist[i].dup - hist[i].dup_before = 1

(***************************************************************************)
(* C17: every frame handed to filter_frame has been released exactly once  *)
(* when the call returns, on every return path, the path taken when        *)
(* ff_filter_frame fails included.                                         *)
(***************************************************************************)
C17_Claimed == \A i \in Returned : heap[hist[i].cur].freed = 1

(***************************************************************************)
(* C18: a call whose push fails returns the code ff_filter_frame gave,     *)
(* leaves the stored reference as it was before the call, and leaves       *)
(* dup_count at its updated value, which equals min_dup_count; a call that *)
(* emits nothing, or whose push succeeds, returns 0.                       *)
(***************************************************************************)
PushFailed(i) == hist[i].emitted # NULL /\ hist[i].push_ret < 0

C18_PushFailure ==
    \A i \in Returned :
      /\ PushFailed(i) =>
           /\ hist[i].ret = hist[i].push_ret
           /\ hist[i].ref_after = hist[i].ref_before
           /\ hist[i].dup = min_dup_count
           /\ hist[i].dup = update_dup_count(hist[i].cls, hist[i].dup_before)
           /\ (i = Len(hist) /\ pc = "configured") =>
                /\ ref = hist[i].ref_before
                /\ ref # NULL => heap[ref].freed = 0
                /\ dup_count = min_dup_count
      /\ ~PushFailed(i) => hist[i].ret = 0

C18_Witness ==
    /\ pc = "configured"
    /\ Len(hist) >= 3
    /\ PushFailed(Len(hist))
    /\ hist[Len(hist)].returned
    /\ hist[Len(hist)].ret = -12
    /\ ref # NULL
    /\ \E i \in Returned : hist[i].emitted # NULL /\ ~PushFailed(i)
    /\ \E i \in Returned : hist[i].emitted = NULL

(***************************************************************************)
(* C19: the first frame, processed with no reference, leaves dup_count at  *)
(* 1, and a frame judged different leaves it at 0.  So for                 *)
(* min_dup_count = m >= 1 the run that starts the stream emits its m-th    *)
(* frame, and a run started by a frame judged different emits the frame m  *)
(* frames after that one, its (m+1)-th frame, when the run is that long.   *)
(***************************************************************************)
EmitsAt(s) == IF hist[s].cls = "diff" THEN s + min_dup_count ELSE s + min_dup_count - 1

C19_Convention ==
    /\ hist # <<>> => (hist[1].cls = "noref" /\ hist[1].dup = 1)
    /\ \A i \in Calls : hist[i].cls = "diff" => hist[i].dup = 0
    /\ min_dup_count >= 1 =>
         \E run \in {[i \in Calls |-> RunOf(i)]} :
           \A i \in Returned : (i \in Emitting) <=> (i = EmitsAt(run[i]))

C19_Witness ==
    /\ min_dup_count = 2
    /\ Returned = Calls
    /\ \E s \in Calls : /\ hist[s].cls = "diff"
                        /\ s + 3 \in Calls
                        /\ RunOf(s + 3) = s
                        /\ Emitting \cap s..(s + 3) = {s + 2}
    /\ 2 \in Emitting
    /\ RunOf(3) = 1

(***************************************************************************)
(* C13: diff_planes, which returns as soon as it can, gives what the       *)
(* comparison without early return gives: 1 if and only if some sampled    *)
(* window has SAD > hi, or the number of sampled windows with SAD > lo      *)
(* exceeds T = floor(w/16) * floor(h/16) * frac.  With w < 16 or h < 16,   *)
(* T is 0 and one sampled window with SAD > lo makes the result 1.         *)
(***************************************************************************)
\* number of sampled windows with SAD > lo_thr
OverLo(lo_thr) == Cardinality({win \in DOMAIN sads : sads[win] > lo_thr})

\* n > floor(w/16) * floor(h/16) * fr, with fr the fraction fr[1] / fr[2]
ExceedsT(n, fr) == n * fr[2] > (plane.w \div 16) * (plane.h \div 16) * fr[1]

WholeScan(o) ==
    \/ \E win \in DOMAIN sads : sads[win] > o.hi
    \/ ExceedsT(OverLo(o.lo), o.frac)

C13_NoShortCircuit ==
    \A k \in 1..Len(rets) :
      /\ rets[k] \in {0, 1}
      /\ rets[k] = 1 <=> WholeScan(opts[k])
      /\ (plane.w < 16 \/ plane.h < 16) =>
           /\ ~ExceedsT(0, opts[k].frac) /\ ExceedsT(1, opts[k].frac)
           /\ OverLo(opts[k].lo) >= 1 => rets[k] = 1

C13_Witness ==
    /\ plane = [w |-> 16, h |-> 20]
    /\ Len(rets) = 2
    /\ opts[1].hi = 4 /\ opts[2].hi = 4
    /\ opts[1].lo = 0 /\ opts[2].lo = 0
    /\ opts[1].frac = <<1, 1>> /\ opts[2].frac = <<1, 2>>
    /\ \A win \in DOMAIN sads : sads[win] <= 4
    /\ sads[<<8, 0>>] = 0 /\ sads[<<8, 12>>] = 0
    /\ OverLo(0) = 1
    /\ rets = <<0, 1>>

(***************************************************************************)
(* C14: for a plane of w by h, the windows diff_planes takes the SAD of    *)
(* are the 8x8 windows with top-left corner (x, y), x in {8, 12, 16, ..}   *)
(* with x + 8 <= w and y in {0, 4, 8, ..} with y + 8 <= h, row by row: all *)
(* of them when it returns 0, and those up to the window that makes it     *)
(* return when it returns 1.  Every one lies inside the plane.  When there *)
(* is no such window the planes are judged identical.                      *)
(***************************************************************************)
Grid(w, h) ==
    { win \in (0..w) \X (0..h) : /\ win[1] >= 8 /\ win[1] % 4 = 0 /\ win[1] + 8 <= w
                                 /\ win[2] % 4 = 0 /\ win[2] + 8 <= h }

\* window a comes before window b when the grid is read row by row
Before(a, b) == a[2] < b[2] \/ (a[2] = b[2] /\ a[1] < b[1])

Visited(k) == {visits[k][n] : n \in 1..Len(visits[k])}

C14_SamplingGrid ==
    \A k \in 1..Len(visits) :
      \E grid \in {Grid(plane.w, plane.h)} :
        /\ Visited(k) \subseteq grid
        /\ \A m, n \in 1..Len(visits[k]) : m < n => Before(visits[k][m], visits[k][n])
        /\ \A v \in Visited(k) : \A g \in grid : Before(g, v) => g \in Visited(k)
        /\ \A v \in Visited(k) : /\ 0 <= v[1] /\ v[1] + 8 <= plane.w
                                 /\ 0 <= v[2] /\ v[2] + 8 <= plane.h
        /\ rets[k] = 0 => Visited(k) = grid
        /\ rets[k] = 1 =>
             /\ visits[k] # <<>>
             /\ sads[visits[k][Len(visits[k])]] > opts[k].lo
                  \/ sads[visits[k][Len(visits[k])]] > opts[k].hi
             /\ \A n \in 1..(Len(visits[k]) - 1) : ~(sads[visits[k][n]] > opts[k].hi)
        /\ grid = {} => rets[k] = 0

C14_Witness ==
    /\ plane = [w |-> 20, h |-> 12]
    /\ Len(visits) = 2
    /\ rets = <<0, 1>>
    /\ visits[1] = << <<8, 0>>, <<12, 0>>, <<8, 4>>, <<12, 4>> >>
    /\ visits[2] = << <<8, 0>>, <<12, 0>>, <<8, 4>> >>

(***************************************************************************)
(* C15: is_frame_different returns 1 if and only if diff_planes returns 1  *)
(* for one of the reference's leading planes, the planes before its first  *)
(* plane without buffer or with zero stride.  Plane p is scanned with      *)
(* width ceil(W / 2^hsub_p) and height ceil(H / 2^vsub_p), W and H the     *)
(* reference's luma size, hsub_p and vsub_p the chroma shifts for planes 1 *)
(* and 2 and 0 for planes 0 and 3.  The planes after the first plane that  *)
(* differs are not scanned.                                                *)
(***************************************************************************)
LeadingPlanes ==
    {p \in 0..3 : \A q \in 0..p : pair.ref.data[q] # NULL /\ pair.ref.linesize[q] # 0}

\* a / 2^b rounded up
CeilShift(a, b) == (a + 2 ^ b - 1) \div (2 ^ b)

PlaneWidth(p) == CeilShift(pair.ref.width, IF p \in {1, 2} THEN hsub ELSE 0)

PlaneHeight(p) == CeilShift(pair.ref.height, IF p \in {1, 2} THEN vsub ELSE 0)

PlaneDiffers(p) ==
    diff_planes(FlatSad(pair.cur, pair.ref, p, PlaneWidth(p), PlaneHeight(p)),
                PlaneWidth(p), PlaneHeight(p), hi, lo, frac) = 1

C15_OrOverPlanes ==
    \A k \in 1..Len(verdict) :
      \E differing \in {{p \in LeadingPlanes : PlaneDiffers(p)}} :
        /\ verdict[k].ret \in {0, 1}
        /\ verdict[k].ret = 1 <=> differing # {}
        /\ \E scanned \in {{p \in LeadingPlanes : \A q \in differing : p <= q}} :
             /\ Len(verdict[k].scans) = Cardinality(scanned)
             /\ \A n \in 1..Len(verdict[k].scans) :
                  /\ n - 1 \in scanned
                  /\ verdict[k].scans[n] = [plane |-> n - 1, w |-> PlaneWidth(n - 1),
                                            h |-> PlaneHeight(n - 1)]

C15_Witness ==
    /\ Len(verdict) = 1
    /\ hsub = 1 /\ vsub = 1
    /\ pair.ref.width = 31 /\ pair.ref.height = 15
    /\ LeadingPlanes = 0..3
    /\ ~PlaneDiffers(0) /\ ~PlaneDiffers(1) /\ PlaneDiffers(2) /\ PlaneDiffers(3)
    /\ verdict[1].ret = 1
    /\ verdict[1].scans = << [plane |-> 0, w |-> 31, h |-> 15],
                             [plane |-> 1, w |-> 16, h |-> 8],
                             [plane |-> 2, w |-> 16, h |-> 8] >>

====
